---- MODULE Spec2Model ----
(***************************************************************************)
(* Market Data Access Engine of databento-mcp-server.                      *)
(*                                                                         *)
(* DataBentoClient (quote cache, bar pipeline, session classifier) and the *)
(* DataBentoHTTP transport (retry loop with linear backoff).               *)
(*                                                                         *)
(* Conventions of the model                                                *)
(*  - Time is Date.now() in milliseconds.                                  *)
(*  - A response text is a record [header, lines]: header is the first     *)
(*    line split at ",", lines are the lines after the first, each split   *)
(*    at "," into integer fields.  << >> is a blank line.  The text ""     *)
(*    has header << >> and no lines.                                       *)
(*  - A JavaScript number that came out of x / 1e9 is held exactly, as a   *)
(*    count of thousandths (4.5 is 4500).  Raw upstream integers are       *)
(*    multiples of 10^6, so the division is exact in the model.            *)
(*  - An optional value (undefined or a value) is a sequence of length 0   *)
(*    or 1.                                                                *)
(***************************************************************************)
EXTENDS Integers, Sequences, FiniteSets, TLC

VARIABLES
    now,         \* Date.now(), ms
    priceCache,  \* DataBentoClient.priceCache : Map<symbol, {data, timestamp}>
    calls,       \* one record per caller slot: the async call it is running
    sync,        \* the last synchronous call: its name, argument and result
    apiKey       \* the credential the constructor stored (private readonly)

vars == <<now, priceCache, calls, sync, apiKey>>

-----------------------------------------------------------------------------
(* Program constants *)

retryAttempts == 3
retryDelayMs == 1000
timeout == 15000
CACHE_TTL == 30000
PRICE_SCALE == 1000000000
QUOTE_BID_INDEX == 13
QUOTE_ASK_INDEX == 14
QUOTE_TS_INDEX == 1
H4_CHUNK == 4

SYMBOL_MAP == [ES |-> "ES.c.0", NQ |-> "NQ.c.0"]

\* SYMBOL_MAP is an object literal: a property read by a name it does not
\* own finds the member of that name on Object.prototype.  String(member) is
\* what a request parameter is set to.
InheritedMembers ==
    [toString |-> "function toString() { [native code] }",
     constructor |-> "function Object() { [native code] }"]

\* SYMBOL_MAP[symbol]: the value, or nothing for undefined
SymbolMapGet(s) ==
    IF s \in DOMAIN SYMBOL_MAP THEN <<SYMBOL_MAP[s]>>
    ELSE IF s \in DOMAIN InheritedMembers THEN <<InheritedMembers[s]>>
    ELSE << >>

-----------------------------------------------------------------------------
(* Bounds of the model *)

MaxBars == 8
MaxLines == 5
MaxCount == 3
MaxDay == 1
MaxKeyLen == 4
MaxCsvLines == 4
MaxTicks == 50

\* caller slots: independent async calls that may be in flight together
Callers == {"a", "b"}
\* the instants Date.now() is observed at while the quote engine runs; the
\* clock only moves forward
Instants == {0, 1000, 2000, 3000, 15000, 29000, 30000, 31000, 32000, 33000}
\* the instants Date.now() is observed at while the bar pipeline runs
InstantsBars == {0, 1000, 3000}
\* the instants Date.now() is observed at by getSessionInfo()
InstantsSession == {0, 25200000, 50400000, 79200000}
\* the instants Date.now() is observed at while the transport runs alone
InstantsHTTP == {0, 500, 1000, 2000, 3000, 15000, 16000, 18000, 33000}
\* symbols a caller may pass; "XX" is not in SYMBOL_MAP
Symbols == {"ES", "NQ", "XX"}
\* the same, and a name that Object.prototype has a member for
AnySymbols == {"ES", "XX", "toString"}
\* the instants Date.now() is observed at while two callers run together
InstantsConcurrent == {0, 1000, 3000, 31000}
\* the instants Date.now() is observed at while two requests run together
InstantsHTTPConcurrent == {0, 1000, 3000, 4000}
\* the instants Date.now() is observed at while both pipelines run
InstantsEngine == {0, 1000, 3000}
\* the characters API keys are made of, and the keys: every string of up to
\* MaxKeyLen of them, "" included
KeyChars == {"d", "b", "-", "x"}
ApiKeys == UNION { [1..n -> KeyChars] : n \in 0..MaxKeyLen }
\* failure details of one attempt: non-2xx statuses, a thrown network error,
\* the AbortSignal timeout
Failures ==
    {"HTTP 500", "HTTP 401", "HTTP 403", "HTTP 404", "HTTP 429", "network",
     "timeout"}
\* the failure details drawn while the quote engine runs
ClientFailures == {"HTTP 500", "network", "timeout"}

-----------------------------------------------------------------------------
(* Numbers *)

Thousandths == PRICE_SCALE \div 1000

Min(a, b) == IF a <= b THEN a ELSE b
Max(a, b) == IF a >= b THEN a ELSE b

\* parseFloat / parseInt of a missing or blank field
NaN == 0 - 1

-----------------------------------------------------------------------------
(* Response texts *)

EmptyText == [header |-> << >>, lines |-> << >>]

\* a body of blanks alone: one line, not empty, with nothing after it
WhitespaceText == [header |-> <<" ">>, lines |-> << >>]

\* response.length === 0
IsEmptyText(text) == text.header = << >> /\ text.lines = << >>

\* mutant of NonBlank: blank lines kept
NonBlankKeepAll(lines) == lines

\* lines.slice(1).filter((line) => line.trim())
RECURSIVE NonBlank(_)
NonBlank(lines) ==
    IF lines = << >> THEN << >>
    ELSE IF Head(lines) = << >> THEN NonBlank(Tail(lines))
    ELSE <<Head(lines)>> \o NonBlank(Tail(lines))

DataLines(text) == NonBlank(text.lines)

\* fields[i] of line.split(","), i counted from 0; undefined parses to NaN
Field(fields, i) == IF i < Len(fields) THEN fields[i + 1] ELSE NaN

\* mutant of DecodePrice: the price divided by 10^6
DecodePriceByMillion(raw) == IF raw = NaN THEN NaN ELSE raw \div (Thousandths \div 1000)

\* parseFloat(field) / 1e9, in thousandths
DecodePrice(raw) == IF raw = NaN THEN NaN ELSE raw \div Thousandths

\* new Date(Math.floor(tsEvent / 1_000_000)).getTime(): nanoseconds to ms
NanosToMillis(ns) == IF ns = NaN THEN NaN ELSE ns \div 1000000

\* (bidPx + askPx) / 2
MidPrice(bid, ask) == IF bid = NaN \/ ask = NaN THEN NaN ELSE (bid + ask) \div 2

\* Date.now() - timestamp.getTime()
Age(t, ts) == IF ts = NaN THEN NaN ELSE t - ts

QuoteHeader ==
    <<"ts_recv", "ts_event", "rtype", "publisher_id", "instrument_id", "action",
      "side", "depth", "price", "size", "flags", "ts_in_delta", "sequence",
      "bid_px_00", "ask_px_00", "bid_sz_00", "ask_sz_00">>

\* one mbp-1 data line with the given ts_event, bid_px_00 and ask_px_00
QuoteLine(ts, bid, ask) ==
    <<ts, ts, 1, 1, 1234, 0, 0, 0, 0, 0, 0, 0, 0, bid, ask, 10, 15>>

LineA == QuoteLine(1000000000, 1500000000, 1502000000)
LineB == QuoteLine(2000000000, 2000000000, 2004000000)

\* the response texts the upstream may answer a quote request with
QuoteTexts ==
    { EmptyText,
      WhitespaceText,
      [header |-> QuoteHeader, lines |-> << << >> >>],
      [header |-> QuoteHeader, lines |-> <<LineA>>],
      [header |-> QuoteHeader, lines |-> <<LineA, LineB, << >> >>] }

\* a quote response in another column layout: as in the repository's
\* SAMPLE_MBP1_RESPONSE fixture, bid_px_00 and ask_px_00 are the 3rd and 4th
\* of six columns (the instrument is given here by its numeric id)
CompactQuoteHeader ==
    <<"ts_event", "instrument_id", "bid_px_00", "ask_px_00", "bid_sz_00",
      "ask_sz_00">>

CompactQuoteLine(ts, bid, ask) == <<ts, 1234, bid, ask, 25, 30>>

\* the quote responses, in either layout, that answer a request while the
\* column layout varies
LayoutTexts ==
    { [header |-> QuoteHeader, lines |-> <<LineA>>],
      [header |-> QuoteHeader, lines |-> <<LineA, LineB, << >> >>],
      [header |-> CompactQuoteHeader,
       lines |-> <<CompactQuoteLine(1000000000, 1500000000, 1502000000)>>],
      [header |-> CompactQuoteHeader,
       lines |-> <<CompactQuoteLine(1000000000, 1500000000, 1502000000),
                   CompactQuoteLine(2000000000, 2000000000, 2004000000)>>] }

BarHeader ==
    <<"ts_event", "rtype", "publisher_id", "instrument_id", "open", "high",
      "low", "close", "volume">>

\* the OHLCV values a data line may carry: open, high, low, close (raw,
\* scaled by 10^9) and volume
BarShapes ==
    << <<1500000000, 1700000000, 1400000000, 1600000000, 1000>>,
       <<1600000000, 1900000000, 1300000000, 1800000000, 1100>>,
       <<1800000000, 1800000000, 1500000000, 1500000000, 1200>> >>

\* the i-th ohlcv data line, carrying shape k; lines are 100 ms apart
BarLine(i, k) ==
    <<i * 100000000, 1, 1, 1234, BarShapes[k][1], BarShapes[k][2],
      BarShapes[k][3], BarShapes[k][4], BarShapes[k][5]>>

\* header plus one data line per element of `shapes`
BarText(shapes) ==
    [header |-> BarHeader, lines |-> [i \in 1..Len(shapes) |-> BarLine(i, shapes[i])]]

\* the shapes the lines of a response text are drawn from
TextShapes == {1, 2}

\* the response texts the upstream may answer a bars request with: nothing,
\* a header alone, or 1..MaxLines data lines
BarTexts ==
    { EmptyText, WhitespaceText, [header |-> BarHeader, lines |-> << << >> >>] }
    \cup { BarText(shapes) :
              shapes \in UNION { [1..n -> TextShapes] : n \in 1..MaxLines } }

\* the texts the upstream answers a bars request with while both pipelines
\* run
EngineBarTexts ==
    { EmptyText, WhitespaceText, [header |-> BarHeader, lines |-> << << >> >>],
      BarText(<<1>>), BarText(<<1, 2>>), BarText(<<1, 2, 3, 2, 1>>) }

Timeframes == {"1h", "H4", "1d"}
Counts == 0..MaxCount

\* Date values passed to getSessionInfo, ms since the epoch: every hour of
\* days 0..MaxDay, at its first ms, in its middle and at its last ms
SessionTimes ==
    { d * 86400000 + h * 3600000 + r :
        d \in 0..MaxDay, h \in 0..23, r \in {0, 1800000, 3599999} }

\* no synchronous call has been made, or its result has been taken; `at` is
\* Date.now() when the call was made, `after` the value the argument holds
\* when the call has returned
NoSync == [op |-> "none", at |-> 0, given |-> << >>, after |-> << >>, out |-> << >>]

-----------------------------------------------------------------------------
(* Errors: the message of a thrown Error, by its parts *)

NoError == [text |-> "", attempts |-> 0, cause |-> "", symbol |-> ""]

\* `DataBento API request failed after ${retryAttempts} attempts: ${error}`
TerminalError(e) ==
    [text |-> "DataBento API request failed after", attempts |-> retryAttempts,
     cause |-> e, symbol |-> ""]

\* "Unexpected error in DataBento request", thrown after the loop
UnexpectedError ==
    [text |-> "Unexpected error in DataBento request", attempts |-> 0,
     cause |-> "", symbol |-> ""]

\* `Invalid symbol: ${symbol}`, `No quote data available for ${symbol}`, ...
SymbolError(text, s) == [text |-> text, attempts |-> 0, cause |-> "", symbol |-> s]

-----------------------------------------------------------------------------
(* Calls *)

IdleCall ==
    [pc |-> "idle", op |-> "none", symbol |-> "", timeframe |-> "", count |-> 0,
     cached |-> << >>, startAt |-> 0, requests |-> 0, symbols |-> "",
     schema |-> "", lookback |-> 0, attempt |-> 0, fetches |-> 0, attemptAt |-> 0,
     failures |-> << >>, failedAt |-> 0, wakeAt |-> 0, answer |-> << >>,
     text |-> << >>, status |-> "none", error |-> NoError, quote |-> << >>,
     bars |-> << >>, auth |-> << >>]

\* The fields of a call:
\*   pc         idle, fetch (an attempt's fetch is pending), sleep (the backoff
\*              timer is pending), done (the promise has settled)
\*   op, symbol, timeframe, count   the method called and its arguments
\*   cached, startAt   getQuote's local `cached` and the Date.now() it was
\*              compared at
\*   requests   how many times makeRequest was entered
\*   symbols, schema, lookback   the request parameters
\*   attempt    the loop variable of makeRequest
\*   fetches    how many times fetch() was called
\*   attemptAt  when the pending (or last) attempt's fetch was called
\*   failures   the failure detail of every failed attempt, in order
\*   failedAt   when the last failed attempt failed
\*   wakeAt     when the pending backoff timer is due
\*   auth       the Authorization header of the last fetch
\*   answer     the body of the 2xx response, as the upstream sent it
\*   text       what makeRequest returned
\*   status, error, quote, bars   how the promise settled, and with what

\* throw: the call ends with an error
Throw(call, err) == [call EXCEPT !.pc = "done", !.status = "error", !.error = err]

\* return await response.text()
ReturnText(call, body) == [call EXCEPT !.text = <<body>>]

-----------------------------------------------------------------------------
(* Transport: the retry loop of makeRequest.  DataBentoClient.makeRequest   *)
(* is the same loop as DataBentoHTTP.makeRequest.                           *)

\* mutants of IsLastAttempt: the budget test never true inside the loop, and
\* true one attempt early
IsLastAttemptNever(attempt) == attempt = retryAttempts + 1
IsLastAttemptEarly(attempt) == attempt = retryAttempts - 1

\* attempt === DATABENTO_CONFIG.retryAttempts
IsLastAttempt(attempt) == attempt = retryAttempts

\* mutant of BackoffDelay: the same delay before every retry
BackoffDelayFlat(attempt) == retryDelayMs

\* DATABENTO_CONFIG.retryDelayMs * attempt
BackoffDelay(attempt) == retryDelayMs * attempt

\* `Basic ${Buffer.from(`${this.apiKey}:`).toString("base64")}`: the key as
\* the user name, with an empty password
AuthHeader(key) == [scheme |-> "Basic", user |-> key, password |-> << >>]

\* mutant of BeginRequest: the attempts made by the requests in flight count
\* against the budget of the new request
BeginRequestSharedBudget(call, symbols, schema, t) ==
    [call EXCEPT !.pc = "fetch", !.requests = @ + 1, !.symbols = symbols,
                 !.schema = schema,
                 !.attempt = 1 + Cardinality({ d \in DOMAIN calls :
                                                  calls[d].pc \in {"fetch", "sleep"} }),
                 !.fetches = @ + 1, !.attemptAt = t,
                 !.auth = <<AuthHeader(apiKey)>>]

\* makeRequest is entered: attempt = 1 and its fetch is issued at time t
BeginRequest(call, symbols, schema, t) ==
    [call EXCEPT !.pc = "fetch", !.requests = @ + 1, !.symbols = symbols,
                 !.schema = schema, !.attempt = 1, !.fetches = @ + 1,
                 !.attemptAt = t, !.auth = <<AuthHeader(apiKey)>>]

\* mutant of AttemptFailed: a 4xx status is not retried
AttemptFailedNoRetryOn4xx(call, e, t) ==
    LET failed == [call EXCEPT !.failures = Append(@, e), !.failedAt = t]
    IN  IF IsLastAttempt(call.attempt)
           \/ e \in {"HTTP 401", "HTTP 403", "HTTP 404", "HTTP 429"}
        THEN Throw(failed, TerminalError(e))
        ELSE [failed EXCEPT !.pc = "sleep",
                            !.wakeAt = t + BackoffDelay(call.attempt)]

\* the catch block: the attempt failed with detail e at time t
AttemptFailed(call, e, t) ==
    LET failed == [call EXCEPT !.failures = Append(@, e), !.failedAt = t]
    IN  IF IsLastAttempt(call.attempt)
        THEN Throw(failed, TerminalError(e))
        ELSE [failed EXCEPT !.pc = "sleep",
                            !.wakeAt = t + BackoffDelay(call.attempt)]

\* mutant of AfterSleep: the attempt number is not advanced
AfterSleepSameAttempt(call, t) ==
    [call EXCEPT !.pc = "fetch", !.fetches = @ + 1, !.attemptAt = t,
                 !.auth = <<AuthHeader(apiKey)>>]

\* the setTimeout promise resolved at time t: attempt++ and the loop test
AfterSleep(call, t) ==
    IF call.attempt + 1 <= retryAttempts
    THEN [call EXCEPT !.pc = "fetch", !.attempt = @ + 1, !.fetches = @ + 1,
                      !.attemptAt = t, !.auth = <<AuthHeader(apiKey)>>]
    ELSE Throw([call EXCEPT !.attempt = @ + 1], UnexpectedError)

-----------------------------------------------------------------------------
(* Quote cache: DataBentoClient.getQuote *)

\* mutants of IsFresh: the TTL taken in seconds, and an entry exactly TTL old
\* still served
IsFreshSeconds(cached, t) ==
    cached # << >> /\ t - cached[1].timestamp < CACHE_TTL \div 1000
IsFreshAtTTL(cached, t) == cached # << >> /\ t - cached[1].timestamp <= CACHE_TTL

\* cached && Date.now() - cached.timestamp < this.CACHE_TTL
IsFresh(cached, t) == cached # << >> /\ t - cached[1].timestamp < CACHE_TTL

\* mutants of CachePut: an entry already there is kept, and the other entries
\* are dropped
CachePutIfAbsent(cache, s, entry) == cache @@ (s :> entry)
CachePutEvicting(cache, s, entry) == (s :> entry)

\* mutant of CachePut: the store time of every entry is renewed
CachePutTouchAll(cache, s, entry) ==
    [k \in DOMAIN cache \cup {s} |->
        IF k = s THEN entry ELSE [cache[k] EXCEPT !.timestamp = entry.timestamp]]

\* this.priceCache.set(cacheKey, entry)
CachePut(cache, s, entry) == (s :> entry) @@ cache

\* this.priceCache.get(cacheKey)
CacheGet(s) == IF s \in DOMAIN priceCache THEN <<priceCache[s]>> ELSE << >>

\* the QuoteData built from the latest line at time t
BuildQuote(s, fields, t) ==
    LET bidPx == DecodePrice(Field(fields, QUOTE_BID_INDEX))
        askPx == DecodePrice(Field(fields, QUOTE_ASK_INDEX))
        ts == NanosToMillis(Field(fields, QUOTE_TS_INDEX))
    IN  [symbol |-> s, price |-> MidPrice(bidPx, askPx), bid |-> bidPx,
         ask |-> askPx, timestamp |-> ts, dataAge |-> Age(t, ts)]

\* mutant of LatestLine: the first data line taken
LatestLineFirst(text) == DataLines(text)[1]

\* dataLines[dataLines.length - 1]
LatestLine(text) == DataLines(text)[Len(DataLines(text))]

\* mutant of QuoteFromText: with no data, the Quote found in the cache is
\* returned
QuoteFromTextServeStale(call, text, t) ==
    IF IsEmptyText(text) \/ DataLines(text) = << >>
    THEN IF call.cached # << >>
         THEN [call EXCEPT !.pc = "done", !.status = "ok",
                           !.quote = <<call.cached[1].data>>]
         ELSE Throw(call, SymbolError("No quote data available for", call.symbol))
    ELSE [call EXCEPT !.pc = "done", !.status = "ok",
                      !.quote = <<BuildQuote(call.symbol, LatestLine(text), t)>>]

\* getQuote after `await this.makeRequest(...)` returned text at time t
QuoteFromText(call, text, t) ==
    IF IsEmptyText(text)
    THEN Throw(call, SymbolError("No quote data available for", call.symbol))
    ELSE IF DataLines(text) = << >>
    THEN Throw(call, SymbolError("No recent data available for", call.symbol))
    ELSE [call EXCEPT !.pc = "done", !.status = "ok",
                      !.quote = <<BuildQuote(call.symbol, LatestLine(text), t)>>]

\* mutant of GetQuote: a call that finds a fetch for its symbol in flight
\* waits for it and does not enter makeRequest
GetQuoteSingleFlight(c, s) ==
    /\ calls[c].pc = "idle"
    /\ LET cached == CacheGet(s)
           call == [IdleCall EXCEPT !.op = "getQuote", !.symbol = s,
                                    !.cached = cached, !.startAt = now]
           inFlight == \E d \in DOMAIN calls :
                           /\ calls[d].pc \in {"fetch", "sleep"}
                           /\ calls[d].symbol = s
       IN  calls' = [calls EXCEPT ![c] =
               IF IsFresh(cached, now)
               THEN [call EXCEPT !.pc = "done", !.status = "ok",
                                 !.quote = <<cached[1].data>>]
               ELSE IF SymbolMapGet(s) = << >>
               THEN Throw(call, SymbolError("Invalid symbol", s))
               ELSE IF inFlight
               THEN [call EXCEPT !.pc = "sleep", !.wakeAt = now]
               ELSE BeginRequest(call, SymbolMapGet(s)[1], "mbp-1", now)]
    /\ UNCHANGED <<now, priceCache, sync, apiKey>>

\* getQuote(symbol) up to its first await
GetQuote(c, s) ==
    /\ calls[c].pc = "idle"
    /\ LET cached == CacheGet(s)
           call == [IdleCall EXCEPT !.op = "getQuote", !.symbol = s,
                                    !.cached = cached, !.startAt = now]
       IN  calls' = [calls EXCEPT ![c] =
               IF IsFresh(cached, now)
               THEN [call EXCEPT !.pc = "done", !.status = "ok",
                                 !.quote = <<cached[1].data>>]
               ELSE IF SymbolMapGet(s) = << >>
               THEN Throw(call, SymbolError("Invalid symbol", s))
               ELSE BeginRequest(call, SymbolMapGet(s)[1], "mbp-1", now)]
    /\ UNCHANGED <<now, priceCache, sync, apiKey>>

-----------------------------------------------------------------------------
(* Bar pipeline: DataBentoClient.getHistoricalBars and aggregateToH4 *)

\* Math.ceil(a / b) for a >= 0, b > 0
CeilDiv(a, b) == (a + b - 1) \div b

\* days startDate is moved back from today
LookbackDays(timeframe, count) ==
    IF timeframe = "1h" THEN CeilDiv(count, 24) + 7
    ELSE IF timeframe = "H4" THEN CeilDiv(count, 6) + 7
    ELSE count + 7

\* mutant of SchemaFor: the hourly schema requested for every timeframe
SchemaForAlwaysHourly(timeframe) == "ohlcv-1h"

\* timeframe === "1d" ? "ohlcv-1d" : "ohlcv-1h"
SchemaFor(timeframe) == IF timeframe = "1d" THEN "ohlcv-1d" ELSE "ohlcv-1h"

\* one data line to a BarData
ParseBar(fields) ==
    [timestamp |-> NanosToMillis(Field(fields, 0)),
     open |-> DecodePrice(Field(fields, 4)),
     high |-> DecodePrice(Field(fields, 5)),
     low |-> DecodePrice(Field(fields, 6)),
     close |-> DecodePrice(Field(fields, 7)),
     volume |-> Field(fields, 8)]

\* dataLines.map(...)
ParseBars(lines) == [i \in 1..Len(lines) |-> ParseBar(lines[i])]

\* Math.max(...xs), Math.min(...xs) of a non-empty list; NaN if any is NaN
RECURSIVE MathMax(_)
MathMax(xs) ==
    IF Len(xs) = 1 THEN xs[1]
    ELSE LET rest == MathMax(Tail(xs))
         IN  IF xs[1] = NaN \/ rest = NaN THEN NaN ELSE Max(xs[1], rest)

RECURSIVE MathMin(_)
MathMin(xs) ==
    IF Len(xs) = 1 THEN xs[1]
    ELSE LET rest == MathMin(Tail(xs))
         IN  IF xs[1] = NaN \/ rest = NaN THEN NaN ELSE Min(xs[1], rest)

\* chunk.reduce((sum, b) => sum + b.volume, 0)
RECURSIVE SumVolume(_)
SumVolume(chunk) ==
    IF chunk = << >> THEN 0
    ELSE LET rest == SumVolume(Tail(chunk))
         IN  IF chunk[1].volume = NaN \/ rest = NaN THEN NaN
             ELSE chunk[1].volume + rest

\* mutant of AggregateChunk: Math.min and Math.max exchanged
AggregateChunkSwappedRange(chunk) ==
    [timestamp |-> chunk[1].timestamp,
     open |-> chunk[1].open,
     high |-> MathMin([i \in 1..Len(chunk) |-> chunk[i].high]),
     low |-> MathMax([i \in 1..Len(chunk) |-> chunk[i].low]),
     close |-> chunk[Len(chunk)].close,
     volume |-> SumVolume(chunk)]

\* mutant of AggregateChunk: high and low taken from the first bar
AggregateChunkFirstRange(chunk) ==
    [timestamp |-> chunk[1].timestamp,
     open |-> chunk[1].open,
     high |-> chunk[1].high,
     low |-> chunk[1].low,
     close |-> chunk[Len(chunk)].close,
     volume |-> SumVolume(chunk)]

\* the bar pushed for one chunk
AggregateChunk(chunk) ==
    [timestamp |-> chunk[1].timestamp,
     open |-> chunk[1].open,
     high |-> MathMax([i \in 1..Len(chunk) |-> chunk[i].high]),
     low |-> MathMin([i \in 1..Len(chunk) |-> chunk[i].low]),
     close |-> chunk[Len(chunk)].close,
     volume |-> SumVolume(chunk)]

\* bars.slice(i, i + 4) at the head of the remaining bars
ChunkOf(bars) == SubSeq(bars, 1, Min(H4_CHUNK, Len(bars)))

\* mutant of aggregateToH4: a trailing chunk of fewer than 4 bars is skipped
RECURSIVE aggregateToH4FullOnly(_)
aggregateToH4FullOnly(bars) ==
    IF Len(bars) < H4_CHUNK THEN << >>
    ELSE <<AggregateChunk(SubSeq(bars, 1, H4_CHUNK))>>
         \o aggregateToH4FullOnly(SubSeq(bars, H4_CHUNK + 1, Len(bars)))

\* for (let i = 0; i < bars.length; i += 4) { ... }
RECURSIVE aggregateToH4(_)
aggregateToH4(bars) ==
    IF bars = << >> THEN << >>
    ELSE <<AggregateChunk(ChunkOf(bars))>>
         \o aggregateToH4(SubSeq(bars, Len(ChunkOf(bars)) + 1, Len(bars)))

\* bars.slice(-count): slice(-0) is slice(0), the whole list
SliceLast(bars, count) ==
    IF count = 0 THEN bars
    ELSE SubSeq(bars, Max(1, Len(bars) - count + 1), Len(bars))

\* what getHistoricalBars returns for the parsed bars
BarsResult(bars, timeframe, count) ==
    IF timeframe = "H4" THEN aggregateToH4(bars) ELSE SliceLast(bars, count)

\* getHistoricalBars after `await this.makeRequest(...)` returned text
BarsFromText(call, text) ==
    IF IsEmptyText(text) \/ DataLines(text) = << >>
    THEN Throw(call, SymbolError("No bar data available for", call.symbol))
    ELSE [call EXCEPT !.pc = "done", !.status = "ok",
                      !.bars = BarsResult(ParseBars(DataLines(text)),
                                          call.timeframe, call.count)]

\* getHistoricalBars(symbol, timeframe, count) up to its first await
GetHistoricalBars(c, s, timeframe, count) ==
    /\ calls[c].pc = "idle"
    /\ LET call == [IdleCall EXCEPT !.op = "getHistoricalBars", !.symbol = s,
                                    !.timeframe = timeframe, !.count = count,
                                    !.startAt = now]
       IN  calls' = [calls EXCEPT ![c] =
               IF SymbolMapGet(s) = << >>
               THEN Throw(call, SymbolError("Invalid symbol", s))
               ELSE BeginRequest(
                        [call EXCEPT !.lookback = LookbackDays(timeframe, count)],
                        SymbolMapGet(s)[1], SchemaFor(timeframe), now)]
    /\ UNCHANGED <<now, priceCache, sync, apiKey>>

\* the BarData lists aggregateToH4 is applied to: 0..MaxBars parsed lines
BarLists ==
    { ParseBars(BarText(shapes).lines) :
        shapes \in UNION { [1..n -> 1..Len(BarShapes)] : n \in 0..MaxBars } }

\* this.aggregateToH4(bars), called on its own with some list of bars
AggregateToH4 ==
    /\ sync.op = "none"
    /\ \E bars \in BarLists :
           sync' = [op |-> "aggregateToH4", at |-> now, given |-> bars,
                    after |-> bars,
                    out |-> aggregateToH4(bars)]
    /\ UNCHANGED <<now, priceCache, calls, apiKey>>

-----------------------------------------------------------------------------
(* Session classifier: DataBentoClient.getSessionInfo *)

HOUR_MS == 3600000
DAY_MS == 86400000

\* date.getUTCHours()
GetUTCHours(ms) == (ms \div HOUR_MS) % 24

\* mutant of SetUTCHours: setUTCHours(h), minutes and below left as they are
SetUTCHoursOnly(ms, h) == (ms \div DAY_MS) * DAY_MS + h * HOUR_MS + (ms % HOUR_MS)

\* the value of a copy of the date after setUTCHours(h, 0, 0, 0)
SetUTCHours(ms, h) == (ms \div DAY_MS) * DAY_MS + h * HOUR_MS

\* mutant of SessionOf: the upper bounds taken inclusive
SessionOfInclusive(utcHour) ==
    IF utcHour >= 0 /\ utcHour <= 7 THEN "Asian"
    ELSE IF utcHour >= 7 /\ utcHour <= 14 THEN "London"
    ELSE IF utcHour >= 14 /\ utcHour <= 22 THEN "NY"
    ELSE "Unknown"

\* the branch of the if-chain taken for utcHour
SessionOf(utcHour) ==
    IF utcHour >= 0 /\ utcHour < 7 THEN "Asian"
    ELSE IF utcHour >= 7 /\ utcHour < 14 THEN "London"
    ELSE IF utcHour >= 14 /\ utcHour < 22 THEN "NY"
    ELSE "Unknown"

\* mutant of SessionBounds: Unknown reported from 22:00 to 24:00
SessionBoundsLateWindow(currentSession, t) ==
    IF currentSession = "Asian" THEN <<SetUTCHours(t, 0), SetUTCHours(t, 7)>>
    ELSE IF currentSession = "London" THEN <<SetUTCHours(t, 7), SetUTCHours(t, 14)>>
    ELSE IF currentSession = "NY" THEN <<SetUTCHours(t, 14), SetUTCHours(t, 22)>>
    ELSE <<SetUTCHours(t, 22), SetUTCHours(t, 24)>>

\* sessionStart and sessionEnd as the branch sets them
SessionBounds(currentSession, t) ==
    IF currentSession = "Asian" THEN <<SetUTCHours(t, 0), SetUTCHours(t, 7)>>
    ELSE IF currentSession = "London" THEN <<SetUTCHours(t, 7), SetUTCHours(t, 14)>>
    ELSE IF currentSession = "NY" THEN <<SetUTCHours(t, 14), SetUTCHours(t, 22)>>
    ELSE <<t, t>>

\* the SessionInfo for the Date value `t`
SessionInfoAt(t) ==
    LET currentSession == SessionOf(GetUTCHours(t))
    IN  [currentSession |-> currentSession,
         sessionStart |-> SessionBounds(currentSession, t)[1],
         sessionEnd |-> SessionBounds(currentSession, t)[2],
         timestamp |-> t]

\* the value of the Date passed as `timestamp` once the call has returned:
\* setUTCHours is applied to the copies made by new Date(now), in no branch
\* to `now` itself
ArgumentAfter(given) == given

\* timestamp || new Date()
DateOrNow(given, t) == IF given # << >> THEN given[1] ELSE t

\* getSessionInfo(timestamp?) with some Date, or with the argument left out
\* (`given` is << >>)
GetSessionInfo ==
    /\ sync.op = "none"
    /\ \E given \in {<< >>} \cup { <<t>> : t \in SessionTimes } :
           sync' = [op |-> "getSessionInfo", at |-> now, given |-> given,
                    after |-> ArgumentAfter(given),
                    out |-> <<SessionInfoAt(DateOrNow(given, now))>>]
    /\ UNCHANGED <<now, priceCache, calls, apiKey>>

-----------------------------------------------------------------------------
(* parseCSV.  A CSV text is the sequence of its lines (the text split at     *)
(* "\n"), a line the sequence of its cells (the line split at ","), a cell   *)
(* the sequence of its characters.  "" is one line of one empty cell.        *)

\* str.trim(), from the left and from the right
RECURSIVE TrimStart(_)
TrimStart(str) ==
    IF str # << >> /\ Head(str) = " " THEN TrimStart(Tail(str)) ELSE str

RECURSIVE TrimEnd(_)
TrimEnd(str) ==
    IF str # << >> /\ str[Len(str)] = " "
    THEN TrimEnd(SubSeq(str, 1, Len(str) - 1))
    ELSE str

Trim(str) == TrimEnd(TrimStart(str))

\* line.trim() is "": the line has no comma and nothing but blanks
IsBlankLine(line) == Len(line) = 1 /\ Trim(line[1]) = << >>

\* the filter callback (line) => line.trim()
IsKeptLine(line) == ~IsBlankLine(line)

RECURSIVE DropBlankStart(_)
DropBlankStart(lines) ==
    IF lines # << >> /\ IsBlankLine(Head(lines))
    THEN DropBlankStart(Tail(lines))
    ELSE lines

RECURSIVE DropBlankEnd(_)
DropBlankEnd(lines) ==
    IF lines # << >> /\ IsBlankLine(lines[Len(lines)])
    THEN DropBlankEnd(SubSeq(lines, 1, Len(lines) - 1))
    ELSE lines

\* csvText.trim().split("\n"): blank lines at both ends go, the first cell
\* left loses its leading blanks and the last cell its trailing blanks
TrimText(text) ==
    LET kept == DropBlankEnd(DropBlankStart(text))
    IN  IF kept = << >> THEN << << << >> >> >>
        ELSE LET first == [kept EXCEPT ![1][1] = TrimStart(@)]
                 n == Len(first)
             IN  [first EXCEPT ![n][Len(first[n])] = TrimEnd(@)]

\* mutant of CellOf: the value taken as it is
CellOfUntrimmed(values, index) ==
    IF index <= Len(values) THEN values[index] ELSE << >>

\* values[index]?.trim() || "", index counted from 1
CellOf(values, index) ==
    IF index <= Len(values) THEN Trim(values[index]) ELSE << >>

\* the index whose assignment to obj[name] is the last one
LastIndexOf(headers, name) ==
    CHOOSE i \in 1..Len(headers) :
        /\ Trim(headers[i]) = name
        /\ \A j \in (i + 1)..Len(headers) : Trim(headers[j]) # name

\* the object built by headers.forEach for one data line
RecordOf(headers, values) ==
    [name \in { Trim(headers[i]) : i \in 1..Len(headers) } |->
        CellOf(values, LastIndexOf(headers, name))]

\* parseCSV(csvText)
parseCSV(text) ==
    LET lines == TrimText(text)
    IN  IF Len(lines) = 0 THEN << >>
        ELSE LET headers == lines[1]
                 dataLines == SelectSeq(Tail(lines), IsKeptLine)
             IN  [r \in 1..Len(dataLines) |-> RecordOf(headers, dataLines[r])]

\* the lines CSV texts are made of: "", " ", "a,b", " a , b", "1", "1, 2 ",
\* "1,2,3"
CsvLines ==
    { << << >> >>,
      << <<" ">> >>,
      << <<"a">>, <<"b">> >>,
      << <<" ", "a", " ">>, <<" ", "b">> >>,
      << <<"1">> >>,
      << <<"1">>, <<" ", "2", " ">> >>,
      << <<"1">>, <<"2">>, <<"3">> >> }

\* the texts parseCSV is applied to: 1..MaxCsvLines lines
CsvTexts == UNION { [1..n -> CsvLines] : n \in 1..MaxCsvLines }

\* parseCSV(csvText) with some text
ParseCSV ==
    /\ sync.op = "none"
    /\ \E text \in CsvTexts :
           sync' = [op |-> "parseCSV", at |-> now, given |-> text,
                    after |-> text,
                    out |-> parseCSV(text)]
    /\ UNCHANGED <<now, priceCache, calls, apiKey>>

-----------------------------------------------------------------------------
(* Construction: DataBentoClient and DataBentoHTTP have the same constructor *)

KEY_PREFIX == <<"d", "b", "-">>

\* !apiKey: undefined (the argument left out) or ""
IsMissing(given) == given = << >> \/ given[1] = << >>

\* mutant of StartsWith: the prefix looked for at the end of the string
StartsWithAtEnd(str, prefix) ==
    /\ Len(str) >= Len(prefix)
    /\ SubSeq(str, Len(str) - Len(prefix) + 1, Len(str)) = prefix

\* str.startsWith(prefix)
StartsWith(str, prefix) ==
    /\ Len(str) >= Len(prefix)
    /\ SubSeq(str, 1, Len(prefix)) = prefix

\* new DataBentoClient(apiKey): the error thrown, or the object with its key
constructor(given) ==
    IF IsMissing(given)
    THEN [status |-> "error", text |-> "DATABENTO_API_KEY is required",
          apiKey |-> << >>]
    ELSE IF ~StartsWith(given[1], KEY_PREFIX)
    THEN [status |-> "error", text |-> "DATABENTO_API_KEY must start with db-",
          apiKey |-> << >>]
    ELSE [status |-> "ok", text |-> "", apiKey |-> given[1]]

\* a client is constructed with some key, or with none
Construct ==
    /\ sync.op = "none"
    /\ \E given \in {<< >>} \cup { <<key>> : key \in ApiKeys } :
           sync' = [op |-> "constructor", at |-> now, given |-> given,
                    after |-> given,
                    out |-> <<constructor(given)>>]
    /\ UNCHANGED <<now, priceCache, calls, apiKey>>

-----------------------------------------------------------------------------
(* DataBentoHTTP.get *)

Get(c) ==
    /\ calls[c].pc = "idle"
    /\ calls' = [calls EXCEPT ![c] =
           BeginRequest([IdleCall EXCEPT !.op = "get", !.startAt = now],
                        "", "", now)]
    /\ UNCHANGED <<now, priceCache, sync, apiKey>>

\* get after makeRequest returned text: the text is the result
GetFromText(call, text) == [call EXCEPT !.pc = "done", !.status = "ok"]

-----------------------------------------------------------------------------
(* Steps of a call in flight *)

\* the fetch of the current attempt fails: non-2xx status, network error, or
\* the AbortSignal once `timeout` ms have passed
FetchFails(c, e) ==
    /\ calls[c].pc = "fetch"
    /\ (e = "timeout") <=> (now - calls[c].attemptAt >= timeout)
    /\ calls' = [calls EXCEPT ![c] = AttemptFailed(calls[c], e, now)]
    /\ UNCHANGED <<now, priceCache, sync, apiKey>>

\* what the caller of makeRequest does with the text it returned
Continue(call, t) ==
    IF call.op = "getQuote" THEN QuoteFromText(call, call.text[1], t)
    ELSE IF call.op = "getHistoricalBars" THEN BarsFromText(call, call.text[1])
    ELSE GetFromText(call, call.text[1])

\* the fetch of the current attempt answers 2xx with `body`; makeRequest
\* returns the text and its caller runs to its end
FetchResolves(c, body) ==
    /\ calls[c].pc = "fetch"
    /\ now - calls[c].attemptAt < timeout
    /\ LET answered == [calls[c] EXCEPT !.answer = <<body>>]
           after == Continue(ReturnText(answered, body), now)
       IN  /\ calls' = [calls EXCEPT ![c] = after]
           /\ priceCache' =
                  IF calls[c].op = "getQuote" /\ after.status = "ok"
                  THEN CachePut(priceCache, calls[c].symbol,
                                [data |-> after.quote[1], timestamp |-> now])
                  ELSE priceCache
    /\ UNCHANGED <<now, sync, apiKey>>

\* the backoff timer is due
TimerFires(c) ==
    /\ calls[c].pc = "sleep"
    /\ now >= calls[c].wakeAt
    /\ calls' = [calls EXCEPT ![c] = AfterSleep(calls[c], now)]
    /\ UNCHANGED <<now, priceCache, sync, apiKey>>

\* the caller has its result; the slot is free for the next call
Return(c) ==
    /\ calls[c].pc = "done"
    /\ calls' = [calls EXCEPT ![c] = IdleCall]
    /\ UNCHANGED <<now, priceCache, sync, apiKey>>

\* the caller of a synchronous method has its result
SyncReturn ==
    /\ sync.op # "none"
    /\ sync' = NoSync
    /\ UNCHANGED <<now, priceCache, calls, apiKey>>

\* the clock of the event loop, in steps of TICK_MS (the shortest delay of
\* any timer) up to MaxTicks steps: time does not pass the instant at which
\* a pending AbortSignal.timeout or setTimeout is due before that timer has
\* fired
TICK_MS == retryDelayMs

TickDue ==
    /\ now + TICK_MS <= MaxTicks * TICK_MS
    /\ \A c \in DOMAIN calls :
           /\ calls[c].pc = "fetch" => now + TICK_MS <= calls[c].attemptAt + timeout
           /\ calls[c].pc = "sleep" => now + TICK_MS <= calls[c].wakeAt
    /\ now' = now + TICK_MS
    /\ UNCHANGED <<priceCache, calls, sync, apiKey>>

\* the longest a request can take: every attempt times out
WorstCaseMs == retryAttempts * timeout + BackoffDelay(1) + BackoffDelay(2)

\* get(), called while the clock has room for the whole request
GetInTime(c) ==
    /\ now + WorstCaseMs <= MaxTicks * TICK_MS
    /\ Get(c)

\* time passes
Tick(instants) ==
    /\ \E t \in instants : t > now /\ now' = t
    /\ UNCHANGED <<priceCache, calls, sync, apiKey>>

-----------------------------------------------------------------------------
(* Specifications *)

Init ==
    /\ now = 0
    /\ priceCache = [s \in {} |-> 0]
    /\ calls = [c \in Callers |-> IdleCall]
    /\ sync = NoSync
    /\ apiKey = <<"d", "b", "-", "x">>

\* the quote engine, one call after another
Next ==
    \/ \E s \in Symbols : GetQuote("a", s)
    \/ \E e \in ClientFailures : FetchFails("a", e)
    \/ \E text \in QuoteTexts : FetchResolves("a", text)
    \/ TimerFires("a")
    \/ Return("a")
    \/ Tick(Instants)

Spec == Init /\ [][Next]_vars

\* the transport alone, one request after another
NextHTTP ==
    \/ Get("a")
    \/ \E e \in Failures : FetchFails("a", e)
    \/ \E text \in QuoteTexts : FetchResolves("a", text)
    \/ TimerFires("a")
    \/ Return("a")
    \/ Tick(InstantsHTTP)

SpecHTTP == Init /\ [][NextHTTP]_vars

\* the bar pipeline, one call after another
NextBars ==
    \/ \E s \in Symbols, timeframe \in Timeframes, count \in Counts :
           GetHistoricalBars("a", s, timeframe, count)
    \/ FetchFails("a", "HTTP 500")
    \/ \E text \in BarTexts : FetchResolves("a", text)
    \/ TimerFires("a")
    \/ Return("a")
    \/ Tick(InstantsBars)

SpecBars == Init /\ [][NextBars]_vars

\* aggregateToH4 alone
NextAggregate ==
    \/ AggregateToH4
    \/ SyncReturn

SpecAggregate == Init /\ [][NextAggregate]_vars

\* the session classifier
NextSession ==
    \/ GetSessionInfo
    \/ SyncReturn
    \/ Tick(InstantsSession)

SpecSession == Init /\ [][NextSession]_vars

\* two callers of getQuote whose calls may be in flight together; a step of
\* a call runs from one await to the next without interleaving
NextConcurrent ==
    \/ \E c \in Callers : GetQuote(c, "ES")
    \/ \E c \in Callers : FetchFails(c, "HTTP 500")
    \/ \E c \in Callers :
           \E text \in { [header |-> QuoteHeader, lines |-> <<LineA>>],
                          [header |-> QuoteHeader, lines |-> <<LineA, LineB>>] } :
               FetchResolves(c, text)
    \/ \E c \in Callers : TimerFires(c)
    \/ \E c \in Callers : Return(c)
    \/ Tick(InstantsConcurrent)

SpecConcurrent == Init /\ [][NextConcurrent]_vars

\* the quote engine answered in either column layout
NextLayout ==
    \/ \E s \in {"ES", "NQ"} : GetQuote("a", s)
    \/ FetchFails("a", "HTTP 500")
    \/ \E text \in LayoutTexts : FetchResolves("a", text)
    \/ TimerFires("a")
    \/ Return("a")
    \/ Tick(InstantsEngine)

SpecLayout == Init /\ [][NextLayout]_vars

\* two callers of the transport whose requests may be in flight together
NextHTTPConcurrent ==
    \/ \E c \in Callers : Get(c)
    \/ \E c \in Callers : \E e \in {"HTTP 500", "network"} : FetchFails(c, e)
    \/ \E c \in Callers :
           FetchResolves(c, [header |-> QuoteHeader, lines |-> <<LineA>>])
    \/ \E c \in Callers : TimerFires(c)
    \/ \E c \in Callers : Return(c)
    \/ Tick(InstantsHTTPConcurrent)

SpecHTTPConcurrent == Init /\ [][NextHTTPConcurrent]_vars

\* the transport with its timers: an attempt that has not completed is
\* aborted when its timeout is due, a backoff timer fires when it is due,
\* and time passes
NextHTTPTimed ==
    \/ GetInTime("a")
    \/ \E e \in {"HTTP 401", "timeout"} : FetchFails("a", e)
    \/ FetchResolves("a", [header |-> QuoteHeader, lines |-> <<LineA>>])
    \/ TimerFires("a")
    \/ Return("a")
    \/ TickDue

SpecHTTPTimed ==
    /\ Init
    /\ [][NextHTTPTimed]_vars
    /\ WF_vars(TickDue)
    /\ WF_vars(FetchFails("a", "timeout"))
    /\ WF_vars(TimerFires("a"))

\* the three operations of the client on one object; getSessionInfo is
\* called without argument or with the Date 0
NextClient ==
    \/ \E s \in {"ES", "NQ"} : GetQuote("a", s)
    \/ \E s \in {"ES", "NQ"} : GetHistoricalBars("a", s, "1h", 1)
    \/ GetSessionInfo /\ sync'.given \in {<< >>, <<0>>}
    \/ SyncReturn
    \/ FetchFails("a", "HTTP 500")
    \/ \E text \in {EmptyText, [header |-> QuoteHeader, lines |-> <<LineA>>]} :
           calls["a"].schema = "mbp-1" /\ FetchResolves("a", text)
    \/ calls["a"].schema # "mbp-1" /\ FetchResolves("a", BarText(<<1, 2>>))
    \/ TimerFires("a")
    \/ Return("a")
    \/ Tick(InstantsEngine)

SpecClient == Init /\ [][NextClient]_vars

\* parseCSV alone
NextCSV ==
    \/ ParseCSV
    \/ SyncReturn

SpecCSV == Init /\ [][NextCSV]_vars

\* construction alone
NextConstruct ==
    \/ Construct
    \/ SyncReturn

SpecConstruct == Init /\ [][NextConstruct]_vars

\* both pipelines of the client, one call after another; the upstream
\* answers a request in the schema it was asked for
NextEngine ==
    \/ \E s \in AnySymbols : GetQuote("a", s)
    \/ \E s \in AnySymbols, timeframe \in Timeframes, count \in {1, MaxCount} :
           GetHistoricalBars("a", s, timeframe, count)
    \/ \E e \in ClientFailures : FetchFails("a", e)
    \/ \E text \in QuoteTexts :
           calls["a"].schema = "mbp-1" /\ FetchResolves("a", text)
    \/ \E text \in EngineBarTexts :
           calls["a"].schema # "mbp-1" /\ FetchResolves("a", text)
    \/ TimerFires("a")
    \/ Return("a")
    \/ Tick(InstantsEngine)

SpecEngine == Init /\ [][NextEngine]_vars

-----------------------------------------------------------------------------
(* Properties *)

\* the entry getQuote found in the cache was `age` ms old when it was tested
FoundEntryAged(call, age) ==
    /\ call.op = "getQuote"
    /\ call.cached # << >>
    /\ call.startAt - call.cached[1].timestamp = age

\* C1: a getQuote that finds an entry younger than 30000 ms for its symbol
\* returns exactly the cached Quote and makes no Transport request, whatever
\* calls came before.
C1_FreshEntryServedWithoutTransport ==
    \A c \in Callers :
        LET call == calls[c]
        IN  (call.op = "getQuote" /\ call.cached # << >>
             /\ call.startAt - call.cached[1].timestamp < 30000)
            => /\ call.pc = "done"
               /\ call.status = "ok"
               /\ call.quote = <<call.cached[1].data>>
               /\ call.requests = 0
               /\ call.fetches = 0

\* a call served an entry that was 29000 ms old while the other symbol is
\* cached too
C1_Witness ==
    /\ FoundEntryAged(calls["a"], 29000)
    /\ calls["a"].pc = "done"
    /\ calls["a"].quote = <<calls["a"].cached[1].data>>
    /\ DOMAIN priceCache = {"ES", "NQ"}

\* getQuote found an entry at least 30000 ms old
FoundStale(call) ==
    /\ call.op = "getQuote"
    /\ call.cached # << >>
    /\ call.startAt - call.cached[1].timestamp >= 30000

\* C2: a getQuote that finds an entry whose age has reached 30000 ms (an
\* entry exactly 30000 ms old included) enters the Transport exactly once,
\* and when it succeeds the Quote it returns is the one built from the new
\* response and the entry of its symbol is replaced by that Quote, stored at
\* the time of completion.
C2_StaleEntryRefetchedOnce ==
    /\ [](\A c \in Callers : FoundStale(calls[c]) => calls[c].requests = 1)
    /\ [][\A c \in Callers :
            (FoundStale(calls[c]) /\ calls[c].pc = "fetch"
             /\ calls'[c].pc = "done" /\ calls'[c].status = "ok")
            => /\ calls'[c].requests = 1
               /\ calls'[c].quote =
                      <<BuildQuote(calls[c].symbol,
                                   LatestLine(calls'[c].answer[1]), now)>>
               /\ priceCache'[calls[c].symbol] =
                      [data |-> calls'[c].quote[1], timestamp |-> now]
               /\ priceCache'[calls[c].symbol].timestamp
                      > calls[c].cached[1].timestamp]_vars

\* an entry exactly 30000 ms old was refetched with one request, and the
\* entry now holds the new Quote
C2_Witness ==
    /\ FoundEntryAged(calls["a"], 30000)
    /\ calls["a"].pc = "done"
    /\ calls["a"].status = "ok"
    /\ calls["a"].requests = 1
    /\ priceCache[calls["a"].symbol].data = calls["a"].quote[1]
    /\ priceCache[calls["a"].symbol].data # calls["a"].cached[1].data

\* C3: when every attempt of a request fails, exactly 3 attempts are made,
\* never a 4th, and the call then raises the terminal error, which carries
\* the attempt count 3 and the failure detail of the 3rd attempt.
C3_ThreeAttemptsThenTerminalError ==
    \A c \in Callers :
        LET call == calls[c]
        IN  /\ call.fetches <= 3
            /\ Len(call.failures) <= 3
            /\ Len(call.failures) = 3
               => /\ call.pc = "done"
                  /\ call.status = "error"
                  /\ call.fetches = 3
                  /\ call.error.text = "DataBento API request failed after"
                  /\ call.error.attempts = 3
                  /\ call.error.cause = call.failures[3]
            /\ (call.op = "get" /\ call.status = "error")
               => Len(call.failures) = 3

\* three attempts failed with three different details and the error carries
\* the last one
C3_Witness ==
    /\ calls["a"].op = "get"
    /\ calls["a"].status = "error"
    /\ calls["a"].failures = <<"HTTP 500", "network", "HTTP 401">>
    /\ calls["a"].error.cause = "HTTP 401"
    /\ calls["a"].error.attempts = 3

\* C4: if attempt k (1, 2 or 3) is the first to succeed, the call returns
\* that attempt's response body and makes no further attempt; nothing is
\* raised while fewer than 3 attempts have failed.
C4_FirstSuccessReturned ==
    \A c \in Callers :
        LET call == calls[c]
        IN  /\ (call.op = "get" /\ call.answer # << >>)
               => /\ call.pc = "done"
                  /\ call.status = "ok"
                  /\ call.error.text = ""
                  /\ call.text = call.answer
                  /\ call.fetches = Len(call.failures) + 1
                  /\ call.fetches \in 1..3
            /\ (call.op = "get" /\ Len(call.failures) < 3 /\ call.answer = << >>)
               => call.pc \in {"fetch", "sleep"}

\* two attempts failed, the third answered, and its body is the result
C4_Witness ==
    /\ calls["a"].op = "get"
    /\ calls["a"].status = "ok"
    /\ Len(calls["a"].failures) = 2
    /\ calls["a"].fetches = 3
    /\ calls["a"].text = calls["a"].answer
    /\ calls["a"].text # <<EmptyText>>

LastOf(seq, k) ==
    [i \in 1..(IF k < Len(seq) THEN k ELSE Len(seq)) |->
        seq[Len(seq) - (IF k < Len(seq) THEN k ELSE Len(seq)) + i]]

\* the sequence the count applies to: the parsed bars, aggregated for H4
BarSequence(call) ==
    IF call.timeframe = "H4"
    THEN aggregateToH4(ParseBars(DataLines(call.answer[1])))
    ELSE ParseBars(DataLines(call.answer[1]))

\* getHistoricalBars returned bars for a count >= 1
ReturnedBars(call) ==
    /\ call.op = "getHistoricalBars"
    /\ call.status = "ok"
    /\ call.count >= 1

\* C6: for every timeframe and every count >= 1, getHistoricalBars returns
\* exactly the last min(count, m) bars of the (possibly aggregated) sequence
\* of m bars, in order: never more than count bars, and all m when m < count.
C6_LastCountBars ==
    \A c \in Callers :
        ReturnedBars(calls[c])
        => /\ calls[c].bars = LastOf(BarSequence(calls[c]), calls[c].count)
           /\ Len(calls[c].bars) <= calls[c].count

\* C6 for the timeframes 1h and 1d alone
C6_LastCountBarsUnaggregated ==
    \A c \in Callers :
        (ReturnedBars(calls[c]) /\ calls[c].timeframe # "H4")
        => /\ calls[c].bars = LastOf(BarSequence(calls[c]), calls[c].count)
           /\ Len(calls[c].bars) <= calls[c].count

\* the input of the last aggregateToH4 call and its result
AggIn == sync.given
AggOut == sync.out

\* the members of group g: positions 4(g-1)+1 .. min(4g, n) of the input
GroupOf(g) == { i \in 1..Len(AggIn) : (g - 1) * 4 < i /\ i <= g * 4 }

\* the sum of the volumes of the bars at the positions in `members`
RECURSIVE VolumeOver(_, _)
VolumeOver(bars, members) ==
    IF members = {} THEN 0
    ELSE LET i == CHOOSE j \in members : TRUE
         IN  bars[i].volume + VolumeOver(bars, members \ {i})

\* C7: for n 1-hour bars aggregateToH4 yields exactly ceil(n/4) bars (none
\* for n = 0); a trailing group of fewer than 4 members is still emitted and
\* its volume is the sum of the volumes of the members it has.
C7_CeilGroups ==
    sync.op = "aggregateToH4"
    => LET n == Len(AggIn)
           m == Len(AggOut)
       IN  /\ 4 * m >= n
           /\ 4 * m < n + 4
           /\ n = 0 => AggOut = << >>
           /\ n > 0 =>
                /\ GroupOf(m) # {}
                /\ Cardinality(GroupOf(m)) = n - 4 * (m - 1)
                /\ AggOut[m].volume = VolumeOver(AggIn, GroupOf(m))

\* 7 bars gave 2 bars, the second built from the last 3
C7_Witness ==
    /\ sync.op = "aggregateToH4"
    /\ Len(AggIn) = 7
    /\ Len(AggOut) = 2
    /\ AggOut[2].volume = AggIn[5].volume + AggIn[6].volume + AggIn[7].volume
    /\ AggOut[2].volume # AggOut[1].volume

\* C8: the bars are partitioned into consecutive groups of 4 in their order
\* (1-4, 5-8, ...) and each group gives one bar: open of its first member,
\* the maximum of the highs, the minimum of the lows, close of its last
\* member, the sum of the volumes.
C8_GroupOHLCV ==
    sync.op = "aggregateToH4"
    => /\ 4 * Len(AggOut) >= Len(AggIn)
       /\ 4 * Len(AggOut) < Len(AggIn) + 4
       /\ \A g \in 1..Len(AggOut) :
            LET first == 4 * (g - 1) + 1
                last == IF 4 * g <= Len(AggIn) THEN 4 * g ELSE Len(AggIn)
            IN  /\ AggOut[g].open = AggIn[first].open
                /\ AggOut[g].close = AggIn[last].close
                /\ \A i \in GroupOf(g) : AggIn[i].high <= AggOut[g].high
                /\ \E i \in GroupOf(g) : AggIn[i].high = AggOut[g].high
                /\ \A i \in GroupOf(g) : AggIn[i].low >= AggOut[g].low
                /\ \E i \in GroupOf(g) : AggIn[i].low = AggOut[g].low
                /\ AggOut[g].volume = VolumeOver(AggIn, GroupOf(g))

\* a second full group whose highest high and lowest low both lie strictly
\* inside it
C8_Witness ==
    /\ sync.op = "aggregateToH4"
    /\ Len(AggIn) = 8
    /\ Len(AggOut) = 2
    /\ AggOut[2].high > AggIn[5].high
    /\ AggOut[2].high > AggIn[8].high
    /\ AggOut[2].low < AggIn[5].low
    /\ AggOut[2].low < AggIn[8].low
    /\ AggOut[2].open = AggIn[5].open
    /\ AggOut[2].close = AggIn[8].close

\* the Date getSessionInfo classified: its argument, or the time of the call
SessionInput == IF sync.given # << >> THEN sync.given[1] ELSE sync.at

\* hour of day, UTC, of a ms timestamp
HourOfDay(ms) == (ms % 86400000) \div 3600000

\* C9: getSessionInfo maps every UTC hour 0..23 to exactly one session:
\* [0,7) Asian, [7,14) London, [14,22) NY, [22,24) Unknown; the boundary
\* hours belong to the later session and the last instant before a boundary
\* to the earlier one.
C9_SessionByHour ==
    sync.op = "getSessionInfo"
    => LET h == HourOfDay(SessionInput)
           got == sync.out[1].currentSession
       IN  /\ Len(sync.out) = 1
           /\ h \in 0..23
           /\ got \in {"Asian", "London", "NY", "Unknown"}
           /\ (got = "Asian") <=> (0 <= h /\ h < 7)
           /\ (got = "London") <=> (7 <= h /\ h < 14)
           /\ (got = "NY") <=> (14 <= h /\ h < 22)
           /\ (got = "Unknown") <=> (22 <= h /\ h < 24)

\* 06:59:59.999 of the second day is still Asian
C9_Witness ==
    /\ sync.op = "getSessionInfo"
    /\ sync.given = <<86400000 + 6 * 3600000 + 3599999>>
    /\ sync.out[1].currentSession = "Asian"

\* C10: for a timestamp whose UTC hour is 22 or 23 getSessionInfo returns
\* Unknown with sessionStart and sessionEnd both equal to the input
\* timestamp.
C10_UnknownCollapsesToInput ==
    (sync.op = "getSessionInfo" /\ HourOfDay(SessionInput) \in {22, 23})
    => /\ sync.out[1].currentSession = "Unknown"
       /\ sync.out[1].sessionStart = SessionInput
       /\ sync.out[1].sessionEnd = SessionInput

\* 23:30 of the first day: Unknown, with both bounds at 23:30
C10_Witness ==
    /\ sync.op = "getSessionInfo"
    /\ sync.given = <<23 * 3600000 + 1800000>>
    /\ sync.out[1].currentSession = "Unknown"
    /\ sync.out[1].sessionStart = 23 * 3600000 + 1800000
    /\ sync.out[1].sessionEnd = 23 * 3600000 + 1800000

\* a line of the body that is not blank
IsDataRow(line) == line # << >>

\* the rows of the body a call was answered with: the non-blank lines after
\* the header line, in order
RowsOf(call) == SelectSeq(call.answer[1].lines, IsDataRow)

\* getQuote returned a Quote
ReturnedQuote(call) ==
    /\ call.op = "getQuote"
    /\ call.pc = "done"
    /\ call.status = "ok"

\* C11: on a cache miss answered with at least one data row, the Quote is
\* built from the last non-blank row: bid and ask are that row's bid_px_00
\* and ask_px_00 divided by 10^9; every Quote returned, fetched or served
\* from the cache, has price = (bid + ask) / 2.
C11_QuoteFromLastRow ==
    \A c \in Callers :
        LET call == calls[c]
        IN  ReturnedQuote(call)
            => /\ 2 * call.quote[1].price = call.quote[1].bid + call.quote[1].ask
               /\ call.answer # << >>
                  => /\ Len(RowsOf(call)) >= 1
                     /\ call.quote[1].bid * 1000000
                            = RowsOf(call)[Len(RowsOf(call))][14]
                     /\ call.quote[1].ask * 1000000
                            = RowsOf(call)[Len(RowsOf(call))][15]

\* a body of two rows and a trailing blank line gave the Quote of the second
\* row, 2.000 / 2.004 with price 2.002
C11_Witness ==
    /\ ReturnedQuote(calls["a"])
    /\ calls["a"].answer # << >>
    /\ Len(calls["a"].answer[1].lines) = 3
    /\ Len(RowsOf(calls["a"])) = 2
    /\ calls["a"].quote[1].bid = 2000
    /\ calls["a"].quote[1].ask = 2004
    /\ calls["a"].quote[1].price = 2002

\* a call of one of the two pipelines
PipelineCall(call) == call.op \in {"getQuote", "getHistoricalBars"}

\* the messages of the no-data errors
NoDataMessages ==
    {"No quote data available for", "No recent data available for",
     "No bar data available for"}

\* C12: when the Transport call succeeds with a body of zero data rows (an
\* empty body, a body of blanks, a header line alone), getQuote and
\* getHistoricalBars fail with a no-data error naming the symbol; the
\* Transport was entered exactly once, the answered attempt was its last,
\* and no Quote or Bar is returned.
C12_NoRowsIsNoDataError ==
    \A c \in Callers :
        LET call == calls[c]
        IN  (PipelineCall(call) /\ call.answer # << >> /\ RowsOf(call) = << >>)
            => /\ call.pc = "done"
               /\ call.status = "error"
               /\ call.error.text \in NoDataMessages
               /\ call.error.symbol = call.symbol
               /\ call.requests = 1
               /\ call.fetches = Len(call.failures) + 1
               /\ call.quote = << >>
               /\ call.bars = << >>

\* getHistoricalBars was answered, at its second attempt, with a header line
\* and a blank line, and failed naming ES
C12_Witness ==
    /\ calls["a"].op = "getHistoricalBars"
    /\ calls["a"].answer = <<[header |-> BarHeader, lines |-> << << >> >>]>>
    /\ calls["a"].fetches = 2
    /\ calls["a"].status = "error"
    /\ calls["a"].error = SymbolError("No bar data available for", "ES")

\* no request has been issued and none is pending
NoRequestIssued ==
    \A c \in Callers :
        calls[c].pc = "idle" /\ calls[c].requests = 0 /\ calls[c].fetches = 0

\* C13: construction fails, with no request issued, exactly when the key is
\* missing, empty, or does not begin with the three characters "db-"; with
\* any key that begins with "db-" it succeeds, and issues no request either.
C13_ConstructionChecksKey ==
    sync.op = "constructor"
    => LET given == sync.given
           wellFormed == /\ given # << >>
                         /\ Len(given[1]) >= 3
                         /\ given[1][1] = "d"
                         /\ given[1][2] = "b"
                         /\ given[1][3] = "-"
       IN  /\ (sync.out[1].status = "error") <=> ~wellFormed
           /\ (sync.out[1].status = "ok") <=> wellFormed
           /\ wellFormed => sync.out[1].apiKey = given[1]
           /\ NoRequestIssued

\* the key "db-" itself is accepted
C13_Witness ==
    /\ sync.op = "constructor"
    /\ sync.given = << <<"d", "b", "-">> >>
    /\ sync.out[1].status = "ok"
    /\ NoRequestIssued

\* what C14 says of one call: a request carries the continuous-contract
\* notation of the symbol, and a symbol outside the table fails as invalid
\* before any request
ResolvedOrInvalid(call) ==
    /\ (call.symbol \in DOMAIN SYMBOL_MAP /\ call.requests >= 1)
       => call.symbols = SYMBOL_MAP[call.symbol]
    /\ call.symbol \notin DOMAIN SYMBOL_MAP
       => /\ call.pc = "done"
          /\ call.status = "error"
          /\ call.error = SymbolError("Invalid symbol", call.symbol)
          /\ call.requests = 0
          /\ call.fetches = 0

\* C14: every request of getQuote and getHistoricalBars carries the
\* continuous-contract notation of the logical symbol (ES.c.0 for ES, NQ.c.0
\* for NQ); for a symbol that is not in the table both fail with the
\* invalid-symbol error, enter the Transport not at all and leave the cache
\* as it was.
C14_SymbolResolvedOrInvalid ==
    /\ [](\A c \in Callers : PipelineCall(calls[c]) => ResolvedOrInvalid(calls[c]))
    /\ [][\A c \in Callers :
            (calls[c].pc = "idle" /\ PipelineCall(calls'[c])
             /\ calls'[c].symbol \notin DOMAIN SYMBOL_MAP)
            => priceCache' = priceCache]_vars

\* C14 for the symbols that name no member of Object.prototype
C14_SymbolResolvedOrInvalidOwnNames ==
    \A c \in Callers :
        (PipelineCall(calls[c]) /\ calls[c].symbol \notin DOMAIN InheritedMembers)
        => ResolvedOrInvalid(calls[c])

\* caller c's getQuote returns a Quote in this step
QuoteReturnedNow(c) ==
    /\ calls[c].pc # "done"
    /\ ReturnedQuote(calls'[c])

\* the Quote's dataAge is some instant of the call, from its start to its
\* return, minus the Quote's event timestamp
AgeReadDuringCall(call, returnedAt) ==
    call.quote[1].dataAge + call.quote[1].timestamp \in call.startAt..returnedAt

\* C15: the dataAge of every Quote getQuote returns, one served from the
\* cache included, is the time of that getQuote call minus the Quote's event
\* timestamp.
C15_DataAgeAtReadTime ==
    [][\A c \in Callers :
          QuoteReturnedNow(c) => AgeReadDuringCall(calls'[c], now)]_vars

\* C15 for the Quotes built from a response
C15_DataAgeOfFetchedQuote ==
    [][\A c \in Callers :
          (QuoteReturnedNow(c) /\ calls'[c].answer # << >>)
          => AgeReadDuringCall(calls'[c], now)]_vars

\* the Quote for symbol s that the last data row of call's answer decodes to
QuoteOfLastRow(call, quote) ==
    LET row == RowsOf(call)[Len(RowsOf(call))]
    IN  /\ quote.symbol = call.symbol
        /\ quote.bid * 1000000 = row[14]
        /\ quote.ask * 1000000 = row[15]
        /\ quote.timestamp * 1000000 = row[2]
        /\ 2 * quote.price = quote.bid + quote.ask

\* caller c's fetch succeeds and its getQuote returns a Quote in this step
QuoteFetchedNow(c) ==
    /\ calls[c].pc = "fetch"
    /\ ReturnedQuote(calls'[c])

\* C16: when getQuote calls for one symbol refresh the cache concurrently,
\* each caller gets the Quote built from its own response, and each store
\* replaces the entry whole with the storing call's Quote and store time, so
\* that the entry is at all times the one written by the call that stored
\* last and never a mixture of two fetches.
C16_LastWriterWins ==
    [][/\ \A c \in Callers :
             QuoteFetchedNow(c)
             => /\ QuoteOfLastRow(calls'[c], calls'[c].quote[1])
                /\ priceCache'[calls[c].symbol]
                       = [data |-> calls'[c].quote[1], timestamp |-> now]
                /\ \A d \in Callers \ {c} : calls'[d] = calls[d]
       /\ (\A c \in Callers : ~QuoteFetchedNow(c)) => priceCache' = priceCache
      ]_vars

\* both callers missed the cache together and got different Quotes; the
\* entry is the Quote and store time of b, who stored last
C16_Witness ==
    /\ ReturnedQuote(calls["a"]) /\ ReturnedQuote(calls["b"])
    /\ calls["a"].cached = << >> /\ calls["b"].cached = << >>
    /\ calls["a"].symbol = "ES" /\ calls["b"].symbol = "ES"
    /\ calls["a"].quote # calls["b"].quote
    /\ calls["a"].quote[1].bid = 2000
    /\ calls["b"].quote[1].bid = 1500
    /\ priceCache["ES"].data = calls["b"].quote[1]
    /\ priceCache["ES"].timestamp = now
    /\ now = 3000

\* caller c's call ends with an error in this step
FailedNow(c) ==
    /\ calls[c].pc # "done"
    /\ calls'[c].pc = "done"
    /\ calls'[c].status = "error"

\* C17: the cache has an entry for a symbol only if a getQuote for that
\* symbol has returned a fetched Quote: an entry appears or changes only in
\* the step in which a getQuote for its symbol succeeds, and then it holds
\* that call's Quote; a call that fails leaves the cache as it was; no entry
\* is ever removed.
C17_EntriesOnlyFromSuccessfulFetch ==
    /\ [](\A s \in DOMAIN priceCache : priceCache[s].data.symbol = s)
    /\ [][/\ DOMAIN priceCache \subseteq DOMAIN priceCache'
          /\ \A s \in DOMAIN priceCache' :
                (s \notin DOMAIN priceCache \/ priceCache'[s] # priceCache[s])
                => \E c \in Callers :
                       /\ QuoteFetchedNow(c)
                       /\ calls[c].symbol = s
                       /\ priceCache'[s].data = calls'[c].quote[1]
          /\ \A c \in Callers : FailedNow(c) => priceCache' = priceCache
          ]_vars

\* a refetch of the stale ES entry failed three times: the entry is the one
\* the call found, and the NQ entry is still there
C17_Witness ==
    /\ calls["a"].op = "getQuote"
    /\ calls["a"].symbol = "ES"
    /\ calls["a"].status = "error"
    /\ Len(calls["a"].failures) = 3
    /\ calls["a"].cached # << >>
    /\ DOMAIN priceCache = {"ES", "NQ"}
    /\ priceCache["ES"] = calls["a"].cached[1]

\* a character that is not a blank
IsInk(ch) == ch # " "

\* a cell without its blanks (no cell of CsvLines has a blank inside)
Stripped(cell) == SelectSeq(cell, IsInk)

\* the line has a comma or a character that is not a blank
HasContent(line) == Len(line) > 1 \/ Stripped(line[1]) # << >>

\* the positions in the text of the lines that have content
ContentLines(text) == { i \in 1..Len(text) : HasContent(text[i]) }

\* the r-th smallest member of a set of positions
NthOf(positions, r) ==
    CHOOSE i \in positions : Cardinality({ k \in positions : k < i }) = r - 1

\* C18: parseCSV returns one record per non-blank line after the header
\* line (the first line that is not blank), in input order; the keys of
\* every record are exactly the header's trimmed names; the value of a name
\* is the trimmed cell of its column, "" where the row is shorter than the
\* header, and cells beyond the header are ignored; an empty, blank or
\* header-only text gives the empty sequence.
C18_ParseCSVRecords ==
    sync.op = "parseCSV"
    => LET text == sync.given
           out == sync.out
           content == ContentLines(text)
       IN  IF content = {} THEN out = << >>
           ELSE LET h == NthOf(content, 1)
                    header == text[h]
                    rows == content \ {h}
                IN  /\ Len(out) = Cardinality(rows)
                    /\ \A r \in 1..Len(out) :
                         LET line == text[NthOf(rows, r)]
                         IN  /\ DOMAIN out[r]
                                   = { Stripped(header[j]) : j \in 1..Len(header) }
                             /\ \A j \in 1..Len(header) :
                                   out[r][Stripped(header[j])]
                                     = IF j <= Len(line) THEN Stripped(line[j])
                                       ELSE << >>

\* " a , b" / a blank line / "1" / "1,2,3": two records with the keys a and
\* b, the first padded with "", the second without the 3
C18_Witness ==
    /\ sync.op = "parseCSV"
    /\ sync.given = << << <<" ", "a", " ">>, <<" ", "b">> >>,
                      << <<" ">> >>,
                      << <<"1">> >>,
                      << <<"1">>, <<"2">>, <<"3">> >> >>
    /\ sync.out = << (<<"a">> :> <<"1">>) @@ (<<"b">> :> << >>),
                    (<<"a">> :> <<"1">>) @@ (<<"b">> :> <<"2">>) >>

\* caller c's call of one of the pipelines has failed
FailedPipelineCall(call) ==
    /\ PipelineCall(call)
    /\ call.pc = "done"
    /\ call.status = "error"

\* C19: every failure of getQuote and getHistoricalBars (the Transport
\* failing after its retry budget, no data, invalid symbol) reaches the
\* caller as an error whose message names the symbol of the call; a
\* Transport failure still contains its cause, the failure of the last
\* attempt.
C19_ErrorsNameSymbolAndCause ==
    \A c \in Callers :
        LET call == calls[c]
        IN  FailedPipelineCall(call)
            => /\ call.error.symbol = call.symbol
               /\ call.failures # << >> /\ call.answer = << >>
                  => call.error.cause = call.failures[Len(call.failures)]

\* C19 without the symbol in a Transport failure: the no-data and
\* invalid-symbol errors name the symbol, and a Transport failure contains
\* the failure of the last attempt
C19_CauseKeptSymbolInPipelineErrors ==
    \A c \in Callers :
        LET call == calls[c]
        IN  FailedPipelineCall(call)
            => IF call.answer = << >> /\ call.failures # << >>
               THEN /\ Len(call.failures) = 3
                    /\ call.error.cause = call.failures[3]
                    /\ call.error.symbol = ""
               ELSE call.error.symbol = call.symbol

\* the number `price` (in thousandths) is the upstream integer raw / 10^9
IsDecoded(price, raw) == raw % 1000000 = 0 /\ price = raw \div 1000000

\* the sum of the raw volumes of the rows at the positions in `members`
RECURSIVE RawVolumeOver(_, _)
RawVolumeOver(rows, members) ==
    IF members = {} THEN 0
    ELSE LET i == CHOOSE j \in members : TRUE
         IN  rows[i][9] + RawVolumeOver(rows, members \ {i})

\* the positions of the rows that make group g of n rows
RowGroup(g, n) == { i \in 1..n : (g - 1) * 4 < i /\ i <= g * 4 }

\* C20: every price of a returned Quote or Bar is the upstream integer of
\* its row divided by 10^9 (1500000000 gives 1.5): bid and ask of the Quote's
\* row; open, high, low and close of the bar's row, or for H4 of the rows of
\* its group; the volume of a bar is the row's volume as it came, for H4 the
\* sum of the group's.
C20_PricesDecodedVolumeAsIs ==
    \A c \in Callers :
        LET call == calls[c]
            rows == RowsOf(call)
            n == Len(rows)
        IN  /\ (ReturnedQuote(call) /\ call.answer # << >>)
               => /\ IsDecoded(call.quote[1].bid, rows[n][14])
                  /\ IsDecoded(call.quote[1].ask, rows[n][15])
            /\ (call.op = "getHistoricalBars" /\ call.status = "ok"
                /\ call.timeframe # "H4")
               => \A i \in 1..Len(call.bars) :
                      LET row == rows[n - Len(call.bars) + i]
                      IN  /\ IsDecoded(call.bars[i].open, row[5])
                          /\ IsDecoded(call.bars[i].high, row[6])
                          /\ IsDecoded(call.bars[i].low, row[7])
                          /\ IsDecoded(call.bars[i].close, row[8])
                          /\ call.bars[i].volume = row[9]
            /\ (call.op = "getHistoricalBars" /\ call.status = "ok"
                /\ call.timeframe = "H4")
               => \A g \in 1..Len(call.bars) :
                      LET group == RowGroup(g, n)
                      IN  /\ group # {}
                          /\ \E i \in group : IsDecoded(call.bars[g].open, rows[i][5])
                          /\ \E i \in group : IsDecoded(call.bars[g].high, rows[i][6])
                          /\ \E i \in group : IsDecoded(call.bars[g].low, rows[i][7])
                          /\ \E i \in group : IsDecoded(call.bars[g].close, rows[i][8])
                          /\ call.bars[g].volume = RawVolumeOver(rows, group)

\* the last of three 1-hour bars returned from five rows: 1500000000,
\* 1700000000, 1400000000, 1600000000 and 1000 came back as 1.5, 1.7, 1.4,
\* 1.6 and 1000
C20_Witness ==
    /\ calls["a"].op = "getHistoricalBars"
    /\ calls["a"].status = "ok"
    /\ calls["a"].timeframe = "1h"
    /\ Len(RowsOf(calls["a"])) = 5
    /\ RowsOf(calls["a"])[5][5] = 1500000000
    /\ Len(calls["a"].bars) = 3
    /\ calls["a"].bars[3].open = 1500
    /\ calls["a"].bars[3].high = 1700
    /\ calls["a"].bars[3].low = 1400
    /\ calls["a"].bars[3].close = 1600
    /\ calls["a"].bars[3].volume = 1000

\* C21: the Transport treats every kind of failed attempt alike: after a
\* non-2xx status of any class (401, 403, 404, 429, 5xx), a network error or
\* a timeout of attempt 1 or 2 comes the backoff sleep of 1000 ms x attempt
\* and then the next attempt; only the failure of attempt 3 raises the
\* terminal error, so a request that is always answered 401 makes 3 attempts
\* and sleeps twice.
C21_EveryFailureRetried ==
    \A c \in Callers :
        LET call == calls[c]
            k == Len(call.failures)
        IN  call.op = "get"
            => /\ \A i \in 1..k : call.failures[i] \in Failures
               /\ (k \in 1..2 /\ call.answer = << >>)
                  => \/ call.pc = "sleep" /\ call.wakeAt = call.failedAt + 1000 * k
                     \/ /\ call.pc = "fetch"
                        /\ call.fetches = k + 1
                        /\ call.attemptAt >= call.failedAt + 1000 * k
               /\ call.status = "error"
                  => /\ k = 3
                     /\ call.fetches = 3
                     /\ call.error = TerminalError(call.failures[3])

\* three 401 answers: three attempts, the third failing no sooner than
\* 3000 ms after the first was made, then the terminal error
C21_Witness ==
    /\ calls["a"].op = "get"
    /\ calls["a"].failures = <<"HTTP 401", "HTTP 401", "HTTP 401">>
    /\ calls["a"].fetches = 3
    /\ calls["a"].status = "error"
    /\ calls["a"].error.cause = "HTTP 401"
    /\ calls["a"].failedAt >= calls["a"].startAt + 3000

\* getQuote found no entry younger than 30000 ms for its symbol
MissedCache(call) ==
    /\ call.op = "getQuote"
    /\ call.cached = << >> \/ call.startAt - call.cached[1].timestamp >= 30000

\* C22: a getQuote that starts while the cache has no fresh entry for its
\* symbol enters the Transport itself, at once and exactly once, whether or
\* not another call for that symbol has a fetch in flight; it does not wait
\* for the other call and the Quote it returns is built from its own
\* response.
C22_NoSingleFlight ==
    /\ [](\A c \in Callers :
            (MissedCache(calls[c]) /\ calls[c].symbol \in DOMAIN SYMBOL_MAP)
            => /\ calls[c].requests = 1
               /\ calls[c].fetches >= 1
               /\ ReturnedQuote(calls[c])
                  => /\ calls[c].answer # << >>
                     /\ QuoteOfLastRow(calls[c], calls[c].quote[1]))
    /\ [][\A c \in Callers :
            (calls[c].pc = "idle" /\ MissedCache(calls'[c])
             /\ calls'[c].symbol \in DOMAIN SYMBOL_MAP)
            => /\ calls'[c].pc = "fetch"
               /\ calls'[c].attempt = 1
               /\ calls'[c].attemptAt = now]_vars

\* both callers missed the cache for ES and each has its own first fetch
\* pending
C22_Witness ==
    /\ MissedCache(calls["a"]) /\ MissedCache(calls["b"])
    /\ calls["a"].symbol = "ES" /\ calls["b"].symbol = "ES"
    /\ calls["a"].pc = "fetch" /\ calls["b"].pc = "fetch"
    /\ calls["a"].requests = 1 /\ calls["b"].requests = 1
    /\ calls["a"].fetches = 1 /\ calls["b"].fetches = 1

\* the header line has a column of that name
HasColumn(header, name) == \E i \in 1..Len(header) : header[i] = name

\* the position of the column of that name
ColumnOf(header, name) == CHOOSE i \in 1..Len(header) : header[i] = name

\* the Quote's bid and ask are the decoded bid_px_00 and ask_px_00 of the
\* last row of the call's answer, found by the header line
BidAskByName(call) ==
    LET header == call.answer[1].header
        row == RowsOf(call)[Len(RowsOf(call))]
    IN  /\ IsDecoded(call.quote[1].bid, row[ColumnOf(header, "bid_px_00")])
        /\ IsDecoded(call.quote[1].ask, row[ColumnOf(header, "ask_px_00")])

\* getQuote returned a Quote built from a response that has both columns
QuoteFromNamedColumns(call) ==
    /\ ReturnedQuote(call)
    /\ call.answer # << >>
    /\ HasColumn(call.answer[1].header, "bid_px_00")
    /\ HasColumn(call.answer[1].header, "ask_px_00")

\* C23: for every response that has the columns bid_px_00 and ask_px_00, at
\* whatever position, the bid and ask of the Quote are the decoded values of
\* those two named fields of the last row.
C23_BidAskByColumnName ==
    \A c \in Callers :
        QuoteFromNamedColumns(calls[c]) => BidAskByName(calls[c])

\* C23 for the responses that have bid_px_00 and ask_px_00 as their 14th and
\* 15th columns
C23_BidAskAtStandardPositions ==
    \A c \in Callers :
        (/\ QuoteFromNamedColumns(calls[c])
         /\ ColumnOf(calls[c].answer[1].header, "bid_px_00") = 14
         /\ ColumnOf(calls[c].answer[1].header, "ask_px_00") = 15)
        => BidAskByName(calls[c])

\* C24: getHistoricalBars requests ohlcv-1h for the timeframes H4 and 1h and
\* ohlcv-1d for 1d, and enters the Transport exactly once per call; the rows
\* are aggregated into bars of 4 if and only if the timeframe is H4: for H4 n
\* rows give ceil(n/4) bars, each with the summed volume of its group, for
\* 1h and 1d every returned bar is one row.
C24_SchemaAndAggregationByTimeframe ==
    \A c \in Callers :
        LET call == calls[c]
            n == Len(RowsOf(call))
        IN  (call.op = "getHistoricalBars" /\ call.symbol \in DOMAIN SYMBOL_MAP)
            => /\ call.requests = 1
               /\ call.timeframe \in {"H4", "1h"} => call.schema = "ohlcv-1h"
               /\ call.timeframe = "1d" => call.schema = "ohlcv-1d"
               /\ (call.status = "ok" /\ call.timeframe = "H4")
                  => /\ 4 * Len(call.bars) >= n
                     /\ 4 * Len(call.bars) < n + 4
                     /\ \A g \in 1..Len(call.bars) :
                           call.bars[g].volume
                             = RawVolumeOver(RowsOf(call), RowGroup(g, n))
               /\ (call.status = "ok" /\ call.timeframe # "H4")
                  => /\ Len(call.bars) <= n
                     /\ call.count >= n => Len(call.bars) = n
                     /\ \A i \in 1..Len(call.bars) :
                           call.bars[i].volume
                             = RowsOf(call)[n - Len(call.bars) + i][9]

\* an H4 call asked for ohlcv-1h once and got 2 bars out of 5 rows
C24_Witness ==
    /\ calls["a"].op = "getHistoricalBars"
    /\ calls["a"].timeframe = "H4"
    /\ calls["a"].schema = "ohlcv-1h"
    /\ calls["a"].requests = 1
    /\ calls["a"].status = "ok"
    /\ Len(RowsOf(calls["a"])) = 5
    /\ Len(calls["a"].bars) = 2

\* C25: the retry state belongs to one request: a request starts at attempt
\* 1 with no failure counted, whatever requests came before or are in
\* flight; its attempt number is one more than the number of its own failed
\* attempts, its budget is 3 and its first delay 1000 ms; a step of one
\* request changes nothing of another; the credential is the same at every
\* fetch and never changes.
C25_RetryStatePerRequest ==
    /\ [](\A c \in Callers :
            LET call == calls[c]
            IN  call.op = "get"
                => /\ call.pc = "fetch"
                      => /\ call.attempt = Len(call.failures) + 1
                         /\ call.fetches = call.attempt
                         /\ call.attempt \in 1..3
                   /\ call.pc = "sleep"
                      => /\ Len(call.failures) \in 1..2
                         /\ call.wakeAt = call.failedAt + 1000 * Len(call.failures)
                   /\ call.status = "error" => Len(call.failures) = 3
                   /\ call.auth = <<AuthHeader(apiKey)>>)
    /\ [][/\ \A c \in Callers :
               (calls[c].pc = "idle" /\ calls'[c].op = "get")
               => /\ calls'[c].attempt = 1
                  /\ calls'[c].fetches = 1
                  /\ calls'[c].failures = << >>
          /\ \A c, d \in Callers :
               (c # d /\ calls'[c] # calls[c]) => calls'[d] = calls[d]
          /\ apiKey' = apiKey
          ]_vars

\* b had used up its budget before a started; a is at attempt 2 after one
\* failure and a sleep of 1000 ms
C25_Witness ==
    /\ calls["b"].op = "get"
    /\ calls["b"].status = "error"
    /\ Len(calls["b"].failures) = 3
    /\ calls["a"].op = "get"
    /\ calls["a"].startAt >= calls["b"].failedAt
    /\ calls["a"].pc = "fetch"
    /\ calls["a"].attempt = 2
    /\ calls["a"].attemptAt = calls["a"].failedAt + 1000

\* C26: every Transport request terminates: a request in flight comes to its
\* end, after at most 3 attempts and 2 backoff sleeps (1000 and 2000 ms), no
\* later than 3 timeouts and 3000 ms after it began, and its end is either
\* the body of the attempt that succeeded or the terminal error carrying the
\* third failure, never the "Unexpected error" thrown after the loop.
C26_RequestTerminates ==
    /\ [](\A c \in Callers :
            LET call == calls[c]
            IN  call.op = "get"
                => /\ call.fetches <= 3
                   /\ Len(call.failures) <= 3
                   /\ call.pc = "sleep" => Len(call.failures) \in 1..2
                   /\ call.wakeAt <= call.failedAt + 2000
                   /\ call.error # UnexpectedError
                   /\ now <= call.startAt + 48000 \/ call.pc = "done"
                   /\ call.pc = "done"
                      => \/ /\ call.status = "ok"
                            /\ call.text = call.answer
                            /\ call.answer # << >>
                            /\ call.error = NoError
                         \/ /\ call.status = "error"
                            /\ call.answer = << >>
                            /\ Len(call.failures) = 3
                            /\ call.error = TerminalError(call.failures[3])
                            /\ call.failedAt <= call.startAt + 48000)
    /\ \A c \in Callers :
          (calls[c].pc \in {"fetch", "sleep"}) ~> (calls[c].pc = "done")

\* all three attempts timed out: the terminal error came 48000 ms after the
\* request began
C26_Witness ==
    /\ calls["a"].op = "get"
    /\ calls["a"].status = "error"
    /\ calls["a"].failures = <<"timeout", "timeout", "timeout">>
    /\ calls["a"].failedAt = calls["a"].startAt + 48000

\* C27: a getQuote that found an expired entry and whose refresh fails (the
\* Transport's terminal error, or no data) raises that error and returns no
\* Quote; the failing step leaves the entry as the call found it, same Quote
\* and same store time; the next getQuote for the symbol, finding the entry
\* expired still, enters the Transport again.
C27_FailedRefreshKeepsExpiredEntry ==
    /\ [](\A c \in Callers :
            (FoundStale(calls[c]) /\ calls[c].pc = "done")
            => \/ /\ calls[c].status = "ok"
                  /\ calls[c].answer # << >>
                  /\ RowsOf(calls[c]) # << >>
               \/ /\ calls[c].status = "error"
                  /\ calls[c].quote = << >>
                  /\ \/ /\ calls[c].answer = << >>
                        /\ Len(calls[c].failures) = 3
                        /\ calls[c].error = TerminalError(calls[c].failures[3])
                     \/ /\ calls[c].answer # << >>
                        /\ calls[c].error.text \in NoDataMessages
                        /\ calls[c].error.symbol = calls[c].symbol)
    /\ [][\A c \in Callers :
            /\ (FailedNow(c) /\ FoundStale(calls'[c]))
               => /\ priceCache' = priceCache
                  /\ priceCache'[calls'[c].symbol] = calls'[c].cached[1]
            /\ (calls[c].pc = "idle" /\ FoundStale(calls'[c]))
               => /\ calls'[c].pc = "fetch"
                  /\ calls'[c].requests = 1]_vars

\* the refresh of an expired entry was answered with a header and no rows:
\* the call failed with the no-data error and the entry is the expired one
C27_Witness ==
    /\ FoundStale(calls["a"])
    /\ calls["a"].status = "error"
    /\ calls["a"].error = SymbolError("No recent data available for", "ES")
    /\ calls["a"].quote = << >>
    /\ priceCache["ES"] = calls["a"].cached[1]
    /\ now - priceCache["ES"].timestamp >= 30000

\* the entries of the symbols other than s are the same before and after
\* the step
OtherEntriesUnchanged(s) ==
    \A k \in (DOMAIN priceCache \cup DOMAIN priceCache') \ {s} :
        /\ k \in DOMAIN priceCache
        /\ k \in DOMAIN priceCache'
        /\ priceCache'[k] = priceCache[k]

\* C28: a step of getQuote(s), succeeding or failing, leaves the entry of
\* every other symbol as it was, Quote and store time; no step of
\* getHistoricalBars or getSessionInfo changes the cache; getHistoricalBars
\* enters the Transport whatever the cache holds; getSessionInfo starts no
\* request and changes no call.
C28_CacheFrame ==
    [][/\ \A c \in Callers :
            (calls'[c] # calls[c] /\ calls'[c].op = "getQuote")
            => OtherEntriesUnchanged(calls'[c].symbol)
       /\ \A c \in Callers :
            (calls'[c] # calls[c] /\ calls'[c].op = "getHistoricalBars")
            => priceCache' = priceCache
       /\ \A c \in Callers :
            (calls[c].pc = "idle" /\ calls'[c].op = "getHistoricalBars")
            => calls'[c].pc = "fetch" /\ calls'[c].requests = 1
       /\ sync' # sync => priceCache' = priceCache /\ calls' = calls
      ]_vars

\* getQuote("ES") has fetched and stored its Quote at a later time than the
\* NQ entry was stored, and getSessionInfo has been called
C28_Witness ==
    /\ ReturnedQuote(calls["a"])
    /\ calls["a"].symbol = "ES"
    /\ calls["a"].requests = 1
    /\ DOMAIN priceCache = {"ES", "NQ"}
    /\ priceCache["ES"].timestamp = now
    /\ priceCache["NQ"].timestamp < now
    /\ priceCache["NQ"].data.symbol = "NQ"
    /\ sync.op = "getSessionInfo"

\* low <= open <= high and low <= close <= high
WellFormed(bar) ==
    /\ bar.low <= bar.open /\ bar.open <= bar.high
    /\ bar.low <= bar.close /\ bar.close <= bar.high

\* the timestamps of the bars increase along the list
Ascending(bars) ==
    \A i \in 1..(Len(bars) - 1) : bars[i].timestamp < bars[i + 1].timestamp

\* C29: when every 1-hour bar given to aggregateToH4 is well formed, every
\* bar it returns is well formed, its high is at least the high and its low
\* at most the low of every member of its group, and its timestamp is that
\* of the first member of the group; an input in ascending timestamp order
\* gives an output in ascending timestamp order.
C29_AggregationKeepsWellFormed ==
    (/\ sync.op = "aggregateToH4"
     /\ \A i \in 1..Len(AggIn) : WellFormed(AggIn[i]))
    => /\ \A g \in 1..Len(AggOut) :
            /\ GroupOf(g) # {}
            /\ WellFormed(AggOut[g])
            /\ \A i \in GroupOf(g) :
                 /\ AggOut[g].high >= AggIn[i].high
                 /\ AggOut[g].low <= AggIn[i].low
            /\ AggOut[g].timestamp = AggIn[4 * (g - 1) + 1].timestamp
       /\ Ascending(AggIn) => Ascending(AggOut)

\* 7 well-formed bars in ascending order gave 2 bars stamped as the 1st and
\* the 5th; the first opens below the high and closes above the low of its
\* group, and its range is wider than that of its first member
C29_Witness ==
    /\ sync.op = "aggregateToH4"
    /\ Len(AggIn) = 7
    /\ Ascending(AggIn)
    /\ \A i \in 1..7 : WellFormed(AggIn[i])
    /\ Len(AggOut) = 2
    /\ AggOut[1].timestamp = AggIn[1].timestamp
    /\ AggOut[2].timestamp = AggIn[5].timestamp
    /\ AggOut[1].timestamp < AggOut[2].timestamp
    /\ AggOut[1].high > AggIn[1].high
    /\ AggOut[1].low < AggIn[1].low
    /\ AggOut[1].low < AggOut[1].close
    /\ AggOut[1].open < AggOut[1].high

\* the hours at which a session starts and ends
SessionHours(session) ==
    IF session = "Asian" THEN <<0, 7>>
    ELSE IF session = "London" THEN <<7, 14>>
    ELSE <<14, 22>>

\* C30: for an input classified Asian, London or NY, sessionStart and
\* sessionEnd are on the UTC day of the input at exactly 00:00 and 07:00,
\* 07:00 and 14:00, or 14:00 and 22:00, so sessionStart <= timestamp <
\* sessionEnd; the returned timestamp is the input, and the Date passed in
\* holds the same value after the call.
C30_SessionBoundsOnInputDay ==
    (/\ sync.op = "getSessionInfo"
     /\ sync.out[1].currentSession \in {"Asian", "London", "NY"})
    => LET t == SessionInput
           info == sync.out[1]
           day == t \div 86400000
           hours == SessionHours(info.currentSession)
       IN  /\ info.sessionStart = day * 86400000 + hours[1] * 3600000
           /\ info.sessionEnd = day * 86400000 + hours[2] * 3600000
           /\ info.sessionStart \div 86400000 = day
           /\ info.sessionEnd \div 86400000 = day
           /\ info.sessionStart <= t
           /\ t < info.sessionEnd
           /\ info.timestamp = t
           /\ sync.after = sync.given

\* 13:59:59.999 of the second day: London, from 07:00 to 14:00 of that day
C30_Witness ==
    /\ sync.op = "getSessionInfo"
    /\ sync.given = <<86400000 + 13 * 3600000 + 3599999>>
    /\ sync.after = sync.given
    /\ sync.out[1].currentSession = "London"
    /\ sync.out[1].sessionStart = 86400000 + 7 * 3600000
    /\ sync.out[1].sessionEnd = 86400000 + 14 * 3600000
    /\ sync.out[1].timestamp = 86400000 + 13 * 3600000 + 3599999

====
